---- MODULE Spec2Model ----
(***************************************************************************)
(* A model of github_release_check (src/src/lib.rs): the paging loop of    *)
(* GitHub::query, the link-header parser get_last_page, and the version    *)
(* selection of GitHub::get_latest_version.                                *)
(*                                                                         *)
(* Text is modelled as a sequence of one-character strings, so that        *)
(* splitting, substring search, the page regex and number parsing are      *)
(* computed character by character as the code computes them.              *)
(***************************************************************************)
EXTENDS Integers, Sequences, FiniteSets, TLC

VARIABLES
    upstream,   \* repository -> page number -> the response the API gives (Unset until first asked)
    calls,      \* caller slot -> the locals of one call of query / get_all_versions / get_latest_version
    pInput,     \* parser specification: the link entries the header collection was rendered from
    pHeaders,   \* parser specification: the header collection handed to get_last_page
    pOut,       \* parser specification: what get_last_page returned
    vTags,      \* resolver specification: the tag names handed to the version selection
    vOut        \* resolver specification: what the version selection returned

vars == <<upstream, calls, pInput, pHeaders, pOut, vTags, vOut>>

(***************************************************************************)
(* Bounds of the model.                                                    *)
(***************************************************************************)
\* Largest page number, besides 10, written into a generated link header.
MaxPageNum == 3
\* Longest tag sequence handed to the version selection on its own.
MaxTags == 3
\* Largest last-page number a first response advertises to query.
MaxLast == 4

(***************************************************************************)
(* Characters and text helpers.                                            *)
(***************************************************************************)
Digit == {"0", "1", "2", "3", "4", "5", "6", "7", "8", "9"}
Lower == {"a", "b", "c", "d", "e", "f", "g", "h", "i", "j", "k", "l", "m",
          "n", "o", "p", "q", "r", "s", "t", "u", "v", "w", "x", "y", "z"}
Upper == {"A", "B", "C", "D", "E", "F", "G", "H", "I", "J", "K", "L", "M",
          "N", "O", "P", "Q", "R", "S", "T", "U", "V", "W", "X", "Y", "Z"}
\* The regex class \w on ASCII text.
WordChar == Digit \cup Lower \cup Upper \cup {"_"}
\* One byte >= 0x80 of a header value (obs-text): the only bytes a HeaderValue
\* can hold that HeaderValue::to_str rejects.
ObsByte == "0xE9"

DigitVal(c) ==
    CASE c = "0" -> 0 [] c = "1" -> 1 [] c = "2" -> 2 [] c = "3" -> 3
      [] c = "4" -> 4 [] c = "5" -> 5 [] c = "6" -> 6 [] c = "7" -> 7
      [] c = "8" -> 8 [] c = "9" -> 9

DigitChar(d) ==
    CASE d = 0 -> "0" [] d = 1 -> "1" [] d = 2 -> "2" [] d = 3 -> "3"
      [] d = 4 -> "4" [] d = 5 -> "5" [] d = 6 -> "6" [] d = 7 -> "7"
      [] d = 8 -> "8" [] d = 9 -> "9"

\* usize::to_string / format!("{}"): the decimal digits of n >= 0.
RECURSIVE Digits(_)
Digits(n) == IF n < 10 THEN <<DigitChar(n)>>
             ELSE Digits(n \div 10) \o <<DigitChar(n % 10)>>

\* Whether pat occurs in s starting at index i.
StartsWithAt(s, i, pat) ==
    /\ i >= 1
    /\ i + Len(pat) - 1 <= Len(s)
    /\ \A j \in 1..Len(pat) : s[i + j - 1] = pat[j]

\* str::contains(pat).
Contains(s, pat) == \E i \in 1..(Len(s) + 1) : StartsWithAt(s, i, pat)

\* str::split(sep) for a one-character separator: the pieces between the
\* separators, empty pieces kept (the empty text splits into one empty piece).
Split(s, sep) ==
    LET seps == {i \in 1..Len(s) : s[i] = sep}
        \* the index of the k-th separator; 0 before the first, Len(s) + 1 after the last
        at(k) == IF k = 0 THEN 0
                 ELSE IF k > Cardinality(seps) THEN Len(s) + 1
                 ELSE CHOOSE i \in seps : Cardinality({j \in seps : j <= i}) = k
    IN  [k \in 1..(Cardinality(seps) + 1) |-> SubSeq(s, at(k - 1) + 1, at(k) - 1)]

\* The pieces joined with sep between them.
RECURSIVE JoinWith(_, _)
JoinWith(pieces, sep) ==
    IF Len(pieces) = 0 THEN <<>>
    ELSE IF Len(pieces) = 1 THEN pieces[1]
    ELSE pieces[1] \o sep \o JoinWith(Tail(pieces), sep)

\* Lexicographic "less than" on two digit texts of the same length.
RECURSIVE DigitsLess(_, _)
DigitsLess(a, b) ==
    IF Len(a) = 0 THEN FALSE
    ELSE IF DigitVal(a[1]) # DigitVal(b[1]) THEN DigitVal(a[1]) < DigitVal(b[1])
    ELSE DigitsLess(Tail(a), Tail(b))

RECURSIVE StripZeros(_)
StripZeros(ds) == IF Len(ds) > 1 /\ ds[1] = "0" THEN StripZeros(Tail(ds)) ELSE ds

RECURSIVE DigitsValue(_, _)
DigitsValue(ds, acc) ==
    IF Len(ds) = 0 THEN acc ELSE DigitsValue(Tail(ds), acc * 10 + DigitVal(ds[1]))

\* usize::MAX on a 64-bit target, as text: 18446744073709551615.
UsizeMaxText == <<"1", "8", "4", "4", "6", "7", "4", "4", "0", "7",
                  "3", "7", "0", "9", "5", "5", "1", "6", "1", "5">>

\* str::parse::<usize> on a non-empty run of ASCII digits: leading zeros are
\* accepted, a value above usize::MAX is an error.
ParseUsize(ds) ==
    LET t == StripZeros(ds) IN
    IF Len(t) > Len(UsizeMaxText)
       \/ (Len(t) = Len(UsizeMaxText) /\ DigitsLess(UsizeMaxText, t))
    THEN [ok |-> FALSE, val |-> 0]
    ELSE [ok |-> TRUE, val |-> DigitsValue(t, 0)]

(***************************************************************************)
(* The page regex and get_last_page.                                       *)
(***************************************************************************)
\* The literal part of PAGE_EXTRACT_REGEX, (\w*)page=(\d+).
PageLiteral == <<"p", "a", "g", "e", "=">>

\* The prefix lengths k for which the regex matches at index i of s: k word
\* characters, then "page=", then at least one digit.
PrefixLens(s, i) ==
    {k \in 0..(Len(s) - i + 1) :
        /\ StartsWithAt(s, i + k, PageLiteral)
        /\ i + k + Len(PageLiteral) <= Len(s)
        /\ s[i + k + Len(PageLiteral)] \in Digit
        /\ \A j \in i..(i + k - 1) : s[j] \in WordChar}

\* The last index of the run of digits that starts at index i (\d+ is greedy).
RECURSIVE DigitsEnd(_, _)
DigitsEnd(s, i) ==
    IF i + 1 <= Len(s) /\ s[i + 1] \in Digit THEN DigitsEnd(s, i + 1) ELSE i

SetMin(S) == CHOOSE x \in S : \A y \in S : x <= y
SetMax(S) == CHOOSE x \in S : \A y \in S : x >= y

\* PAGE_EXTRACT_REGEX.captures_iter(s): the successive non-overlapping
\* leftmost matches from index `from` on, each with its two groups. The
\* greedy \w* takes the longest prefix that still lets the rest match.
RECURSIVE PAGE_EXTRACT_REGEX(_, _)
RECURSIVE CaptureAt(_, _, _, _)
\* The match at index i with prefix length k, whose digits end at index e,
\* and the matches after it.
CaptureAt(s, i, k, e) ==
    <<[g1 |-> SubSeq(s, i, i + k - 1), g2 |-> SubSeq(s, i + k + Len(PageLiteral), e)]>>
        \o PAGE_EXTRACT_REGEX(s, e + 1)

LongestAt(s, i, k) == CaptureAt(s, i, k, DigitsEnd(s, i + k + Len(PageLiteral)))

LeftmostAt(s, i) == LongestAt(s, i, SetMax(PrefixLens(s, i)))

PAGE_EXTRACT_REGEX(s, from) ==
    LET starts == {i \in from..Len(s) : PrefixLens(s, i) # {}} IN
    IF starts = {} THEN <<>> ELSE LeftmostAt(s, SetMin(starts))

\* The results of get_last_page: Ok(None), Ok(Some(n)), Err(HeaderToString),
\* or the panic of the expect on the number parse.
LastNone == [kind |-> "ok", some |-> FALSE, val |-> 0]
LastSome(n) == [kind |-> "ok", some |-> TRUE, val |-> n]
LastErr == [kind |-> "HeaderToString", some |-> FALSE, val |-> 0]
LastPanic == [kind |-> "panic", some |-> FALSE, val |-> 0]

\* rel="last"
RelLastText == <<"r", "e", "l", "=", "\"", "l", "a", "s", "t", "\"">>

\* HeaderMap::get(name): the index of the first header of that name, 0 for none.
\* Header names are stored in lower case by the map.
HeaderGet(headers, name) ==
    LET hits == {i \in 1..Len(headers) : headers[i].name = name} IN
    IF hits = {} THEN 0 ELSE CHOOSE i \in hits : \A j \in hits : i <= j

\* HeaderValue::to_str succeeds when every byte is visible ASCII.
ToStrOk(value) == \A i \in 1..Len(value) : value[i] # ObsByte

\* FirstExactPage without the test of the first group: the first capture.
FirstCapture(caps) == IF Len(caps) = 0 THEN 0 ELSE 1

\* The first capture whose first group is empty, 0 for none.
FirstExactPage(caps) ==
    LET hits == {i \in 1..Len(caps) : Len(caps[i].g1) = 0} IN
    IF hits = {} THEN 0 ELSE CHOOSE i \in hits : \A j \in hits : i <= j

\* cap_part[2].parse::<usize>().expect(..), and the return of Some(page).
ParsedPage(n) == IF n.ok THEN LastSome(n.val) ELSE LastPanic

\* ScanCaptures with the expect reached when no capture qualifies.
ScanCapturesExpect(refs, i, caps, c) ==
    IF c = 0 THEN LastPanic ELSE ParsedPage(ParseUsize(caps[c].g2))

\* The loop over links.split(','), from piece i on.
RECURSIVE ScanPageRefs(_, _)
RECURSIVE ScanCaptures(_, _, _, _)
\* The loop over the captures of piece i, c being the first capture whose
\* first group is empty (0 for none).
ScanCaptures(refs, i, caps, c) ==
    IF c = 0 THEN ScanPageRefs(refs, i + 1) ELSE ParsedPage(ParseUsize(caps[c].g2))

CapturesOf(refs, i, caps) == ScanCaptures(refs, i, caps, FirstExactPage(caps))

ScanPageRefs(refs, i) ==
    IF i > Len(refs) THEN LastNone
    ELSE IF ~Contains(refs[i], RelLastText) THEN ScanPageRefs(refs, i + 1)
    ELSE CapturesOf(refs, i, PAGE_EXTRACT_REGEX(refs[i], 1))

get_last_page(headers) ==
    LET l == HeaderGet(headers, "link") IN
    IF l = 0 THEN LastNone
    ELSE IF ~ToStrOk(headers[l].value) THEN LastErr
    ELSE ScanPageRefs(Split(headers[l].value, ","), 1)

(***************************************************************************)
(* Link headers as the API writes them: a comma-separated list of          *)
(* <url?key=value&...>; rel="name" entries.                                *)
(***************************************************************************)
KeyPage == <<"p", "a", "g", "e">>
KeyPerPage == <<"p", "e", "r", "_", "p", "a", "g", "e">>
KeyHomepage == <<"h", "o", "m", "e", "p", "a", "g", "e">>
KeyMyPage == <<"m", "y", "_", "p", "a", "g", "e">>
KeyMyDashPage == <<"m", "y", "-", "p", "a", "g", "e">>
RelNext == <<"n", "e", "x", "t">>
RelLast == <<"l", "a", "s", "t">>
RelPrev == <<"p", "r", "e", "v">>
ReleasesUrl == <<"h", "t", "t", "p", "s", ":", "/", "/", "h", "/", "r">>
\* 2^64 as text: one more than usize::MAX.
TooBigText == <<"1", "8", "4", "4", "6", "7", "4", "4", "0", "7",
                "3", "7", "0", "9", "5", "5", "1", "6", "1", "6">>

\* A query parameter: its key, the digits written, and the number they denote
\* (-1 when the number does not fit a usize).
Param(key, n) == [key |-> key, text |-> Digits(n), num |-> n]
ParamText(key, text, n) == [key |-> key, text |-> text, num |-> n]

RenderParam(p) == p.key \o <<"=">> \o p.text

RenderParams(ps) == JoinWith([i \in 1..Len(ps) |-> RenderParam(ps[i])], <<"&">>)

\* One entry: <url?params>; rel="name". obs puts a byte >= 0x80 into the URL.
RenderEntry(e) ==
    <<"<">> \o ReleasesUrl \o (IF e.obs THEN <<ObsByte>> ELSE <<>>)
        \o (IF Len(e.params) = 0 THEN <<>> ELSE <<"?">> \o RenderParams(e.params))
        \o <<">", ";", " ", "r", "e", "l", "=", "\"">> \o e.rel \o <<"\"">>

RenderLink(entries) ==
    JoinWith([i \in 1..Len(entries) |-> RenderEntry(entries[i])], <<",", " ">>)

Entry(rel, params) == [rel |-> rel, params |-> params, obs |-> FALSE]

\* The header collection of a response: a content-type header, and a link
\* header when h.link. h is [link |-> BOOLEAN, entries |-> the link entries].
ContentType == [name |-> "content-type", value |-> <<"j", "s", "o", "n">>]
NoLink == [link |-> FALSE, entries |-> <<>>]
Link(entries) == [link |-> TRUE, entries |-> entries]
RenderHeaders(h) ==
    IF ~h.link THEN <<ContentType>>
    ELSE <<ContentType, [name |-> "link", value |-> RenderLink(h.entries)]>>

(***************************************************************************)
(* Results and errors (LookupError).                                       *)
(***************************************************************************)
\* A Result: tag is "Ok", "Err" or "Panic" ("Pending" before the call ends);
\* an Err carries the LookupError variant and, for the two variants that have
\* one, the status code.
Pending == [tag |-> "Pending", err |-> "", status |-> 0, val |-> <<>>]
Ok(v) == [tag |-> "Ok", err |-> "", status |-> 0, val |-> v]
Err(e, stat) == [tag |-> "Err", err |-> e, status |-> stat, val |-> <<>>]
Panic == [tag |-> "Panic", err |-> "", status |-> 0, val |-> <<>>]

None == [some |-> FALSE, val |-> 0]
Some(n) == [some |-> TRUE, val |-> n]

PAGINATION_REQUEST_AMOUNT == 100
DEFAULT_API_ROOT == "https://api.github.com/"

\* StatusCode::is_success
is_success(stat) == 200 <= stat /\ stat <= 299

\* StatusError with 403 left out of the authentication statuses.
StatusErrorOnly401(stat) ==
    IF stat = 404 THEN Err("RepositoryNotFound", 0)
    ELSE IF stat = 401 THEN Err("AuthenticationError", stat)
    ELSE Err("ErrorHttpResponse", stat)

\* The error query returns for a response whose status is not a success.
StatusError(stat) ==
    IF stat = 404 THEN Err("RepositoryNotFound", 0)
    ELSE IF stat = 401 \/ stat = 403 THEN Err("AuthenticationError", stat)
    ELSE Err("ErrorHttpResponse", stat)

\* BuildRequest with the pages counted from 0.
BuildRequestFromZero(api_root, repository, page) ==
    [url |-> <<api_root, "repos/", repository, "/releases">>,
     per_page |-> PAGINATION_REQUEST_AMOUNT,
     page |-> page - 1]

\* The request of one turn of the loop: the URL and the two query parameters.
BuildRequest(api_root, repository, page) ==
    [url |-> <<api_root, "repos/", repository, "/releases">>,
     per_page |-> PAGINATION_REQUEST_AMOUNT,
     page |-> page]

\* pages.iter().flatten().cloned().collect()
RECURSIVE Flatten(_)
Flatten(pages) ==
    IF Len(pages) = 0 THEN <<>> ELSE pages[1] \o Flatten(Tail(pages))

\* LoopBreaks with the test made strict: the loop breaks once the page to
\* request is past the last one.
LoopBreaksAfterLast(page, last_page) ==
    IF last_page.some THEN page > last_page.val ELSE TRUE

\* LoopBreaks with the loop going on when no last page is known.
LoopBreaksNoneGoesOn(page, last_page) ==
    IF last_page.some THEN page >= last_page.val ELSE FALSE

\* The test after page += 1: TRUE when the loop breaks.
LoopBreaks(page, last_page) ==
    IF last_page.some THEN page >= last_page.val ELSE TRUE

\* What `last_page = get_last_page(response.headers())?` does when last_page
\* is still None; a known last_page is kept and the headers are not read.
Probed(last_page, r) ==
    IF r.kind = "ok"
    THEN [kind |-> "ok", last_page |-> [some |-> r.some, val |-> r.val]]
    ELSE [kind |-> r.kind, last_page |-> last_page]

\* ProbeLastPage reading the headers of every response.
ProbeLastPageEach(last_page, headers) == Probed(last_page, get_last_page(headers))

ProbeLastPage(last_page, headers) ==
    IF last_page.some THEN [kind |-> "ok", last_page |-> last_page]
    ELSE Probed(last_page, get_last_page(headers))

\* PushPage without `page += 1`: the same page is asked for again.
PushPageSamePage(l, resp, last_page) ==
    IF ~resp.body.json
    THEN [outcome |-> "err", error |-> Err("HttpClient", 0),
          page |-> l.page, pages |-> l.pages, last_page |-> last_page]
    ELSE [outcome |-> IF LoopBreaks(l.page, last_page) THEN "break" ELSE "next",
          error |-> Pending,
          page |-> l.page,
          pages |-> Append(l.pages, resp.body.items),
          last_page |-> last_page]

\* The turn of the loop from `pages.push(response.json()?)` on, last_page
\* being the value after the probe.
PushPage(l, resp, last_page) ==
    IF ~resp.body.json
    THEN [outcome |-> "err", error |-> Err("HttpClient", 0),
          page |-> l.page, pages |-> l.pages, last_page |-> last_page]
    ELSE [outcome |-> IF LoopBreaks(l.page + 1, last_page) THEN "break" ELSE "next",
          error |-> Pending,
          page |-> l.page + 1,
          pages |-> Append(l.pages, resp.body.items),
          last_page |-> last_page]

\* Return with a failure after the first page ending the loop as a break
\* does, so that the pages read so far are returned.
ReturnPagesSoFar(l, error) ==
    [outcome |-> IF error.tag = "Panic" THEN "panic"
                 ELSE IF Len(l.pages) > 0 THEN "break" ELSE "err",
     error |-> error,
     page |-> l.page, pages |-> l.pages, last_page |-> l.last_page]

\* An early return: the locals stay as they are.
Return(l, error) ==
    [outcome |-> IF error.tag = "Panic" THEN "panic" ELSE "err", error |-> error,
     page |-> l.page, pages |-> l.pages, last_page |-> l.last_page]

\* AfterProbe with the body decoded before the result of the probe is looked at.
AfterProbeBodyFirst(l, resp, probe) ==
    IF ~resp.body.json THEN Return(l, Err("HttpClient", 0))
    ELSE IF probe.kind = "HeaderToString" THEN Return(l, Err("HeaderToString", 0))
    ELSE IF probe.kind = "panic" THEN Return(l, Panic)
    ELSE PushPage(l, resp, probe.last_page)

AfterProbe(l, resp, probe) ==
    IF probe.kind = "HeaderToString" THEN Return(l, Err("HeaderToString", 0))
    ELSE IF probe.kind = "panic" THEN Return(l, Panic)
    ELSE PushPage(l, resp, probe.last_page)

\* One turn of the loop of query from the response on. l holds the locals
\* page, pages and last_page; the outcome says how the turn ends: "next" (the
\* loop goes round), "break", "err" (an early return) or "panic".
ProcessResponse(l, resp) ==
    IF resp.kind = "transport_error" THEN Return(l, Err("HttpClient", 0))
    ELSE IF ~is_success(resp.status) THEN Return(l, StatusError(resp.status))
    ELSE AfterProbe(l, resp, ProbeLastPage(l.last_page, RenderHeaders(resp.headers)))

(***************************************************************************)
(* semver::Version: parsing and precedence. Build metadata (+...) is left  *)
(* out: no tag of the model carries any.                                   *)
(***************************************************************************)
Letter == Lower \cup Upper

\* The characters of the tags in ASCII order.
AsciiOrder == <<"-", "0", "1", "2", "3", "4", "5", "6", "7", "8", "9",
    "A", "B", "C", "D", "E", "F", "G", "H", "I", "J", "K", "L", "M",
    "N", "O", "P", "Q", "R", "S", "T", "U", "V", "W", "X", "Y", "Z",
    "a", "b", "c", "d", "e", "f", "g", "h", "i", "j", "k", "l", "m",
    "n", "o", "p", "q", "r", "s", "t", "u", "v", "w", "x", "y", "z">>

CharRank(c) == CHOOSE i \in 1..Len(AsciiOrder) : AsciiOrder[i] = c

AllDigits(t) == Len(t) > 0 /\ \A i \in 1..Len(t) : t[i] \in Digit

\* A numeric identifier: digits without a leading zero.
IsNumericId(t) == AllDigits(t) /\ (Len(t) = 1 \/ t[1] # "0")

\* A pre-release identifier: non-empty, of [0-9A-Za-z-], and without a leading
\* zero when it is all digits.
IsPreId(t) ==
    /\ Len(t) > 0
    /\ \A i \in 1..Len(t) : t[i] \in Digit \cup Letter \cup {"-"}
    /\ (AllDigits(t) => IsNumericId(t))

IndexOf(s, c) ==
    LET hits == {i \in 1..Len(s) : s[i] = c} IN
    IF hits = {} THEN 0 ELSE CHOOSE i \in hits : \A j \in hits : i <= j

NoVersion == [ok |-> FALSE, major |-> 0, minor |-> 0, patch |-> 0, pre |-> <<>>]

\* Version::parse: major.minor.patch, then an optional -pre.release.
ParseVersion(s) ==
    LET dash == IndexOf(s, "-")
        core == IF dash = 0 THEN s ELSE SubSeq(s, 1, dash - 1)
        nums == Split(core, ".")
        ids  == IF dash = 0 THEN <<>> ELSE Split(SubSeq(s, dash + 1, Len(s)), ".")
    IN  IF Len(nums) # 3 \/ \E i \in 1..Len(nums) : ~IsNumericId(nums[i])
        THEN NoVersion
        ELSE IF \E i \in 1..Len(ids) : ~IsPreId(ids[i])
        THEN NoVersion
        ELSE [ok |-> TRUE,
              major |-> DigitsValue(nums[1], 0),
              minor |-> DigitsValue(nums[2], 0),
              patch |-> DigitsValue(nums[3], 0),
              pre |-> ids]

CmpInt(a, b) == IF a < b THEN -1 ELSE IF a > b THEN 1 ELSE 0

\* ASCII order of two texts; a proper prefix is the smaller.
RECURSIVE CmpText(_, _)
CmpText(a, b) ==
    IF Len(a) = 0 /\ Len(b) = 0 THEN 0
    ELSE IF Len(a) = 0 THEN -1
    ELSE IF Len(b) = 0 THEN 1
    ELSE IF a[1] # b[1] THEN CmpInt(CharRank(a[1]), CharRank(b[1]))
    ELSE CmpText(Tail(a), Tail(b))

\* Two pre-release identifiers: numeric ones by value and below the others,
\* the others in ASCII order.
CmpId(a, b) ==
    IF AllDigits(a) /\ AllDigits(b) THEN CmpInt(DigitsValue(a, 0), DigitsValue(b, 0))
    ELSE IF AllDigits(a) THEN -1
    ELSE IF AllDigits(b) THEN 1
    ELSE CmpText(a, b)

\* Two pre-releases: none is above any; otherwise identifier by identifier,
\* and the longer is above its prefix.
RECURSIVE CmpPre(_, _)
CmpPre(a, b) ==
    IF Len(a) = 0 /\ Len(b) = 0 THEN 0
    ELSE IF Len(a) = 0 THEN 1
    ELSE IF Len(b) = 0 THEN -1
    ELSE IF CmpId(a[1], b[1]) # 0 THEN CmpId(a[1], b[1])
    ELSE IF Len(a) = 1 /\ Len(b) = 1 THEN 0
    ELSE IF Len(a) = 1 THEN -1
    ELSE IF Len(b) = 1 THEN 1
    ELSE CmpPre(Tail(a), Tail(b))

\* Ord for Version.
CmpVersion(a, b) ==
    IF a.major # b.major THEN CmpInt(a.major, b.major)
    ELSE IF a.minor # b.minor THEN CmpInt(a.minor, b.minor)
    ELSE IF a.patch # b.patch THEN CmpInt(a.patch, b.patch)
    ELSE CmpPre(a.pre, b.pre)

(***************************************************************************)
(* get_all_versions and get_latest_version, from the result of query on.   *)
(***************************************************************************)
\* get_all_versions dropping the empty tag names.
get_all_versionsNonEmpty(qres) ==
    IF qres.tag # "Ok" THEN qres
    ELSE Ok(SelectSeq([i \in 1..Len(qres.val) |-> qres.val[i].tag_name],
                      LAMBDA t : Len(t) > 0))

\* .map(|release| release.tag_name.clone()), with ? passing an error on.
get_all_versions(qres) ==
    IF qres.tag # "Ok" THEN qres
    ELSE Ok([i \in 1..Len(qres.val) |-> qres.val[i].tag_name])

\* StripV stripping every leading 'v' (trim_start_matches).
RECURSIVE StripEveryV(_)
StripEveryV(s) == IF Len(s) > 0 /\ s[1] = "v" THEN StripEveryV(Tail(s)) ELSE s

\* if s.starts_with('v') { s = s.chars().skip(1).collect(); }
StripV(s) == IF Len(s) > 0 /\ s[1] = "v" THEN Tail(s) ELSE s

\* .map(parse).filter_map(Result::ok): the versions of the tags that parse.
RECURSIVE ParsedVersions(_)
ParsedVersions(tags) ==
    IF Len(tags) = 0 THEN <<>>
    ELSE LET v == ParseVersion(StripV(tags[1])) IN
         (IF v.ok THEN <<v>> ELSE <<>>) \o ParsedVersions(Tail(tags))

\* Iterator::max: the last of the greatest elements.
RECURSIVE MaxVersion(_)
MaxVersion(vs) ==
    IF Len(vs) = 1 THEN vs[1]
    ELSE LET m == MaxVersion(Tail(vs)) IN
         IF CmpVersion(vs[1], m) > 0 THEN vs[1] ELSE m

\* get_latest_version reporting a failed query as NoReleases.
get_latest_versionOrNone(versions) ==
    IF versions.tag = "Panic" THEN versions
    ELSE IF versions.tag # "Ok" THEN Err("NoReleases", 0)
    ELSE IF Len(ParsedVersions(versions.val)) = 0 THEN Err("NoReleases", 0)
    ELSE Ok(MaxVersion(ParsedVersions(versions.val)))

\* The selection of get_latest_version on the result of get_all_versions.
get_latest_version(versions) ==
    IF versions.tag # "Ok" THEN versions
    ELSE LET vs == ParsedVersions(versions.val) IN
         IF Len(vs) = 0 THEN Err("NoReleases", 0) ELSE Ok(MaxVersion(vs))

(***************************************************************************)
(* The inputs: tags, release records, bodies, link headers, responses.     *)
(***************************************************************************)
Tag_v1_0_0 == <<"v", "1", ".", "0", ".", "0">>
Tag_v1_9_10 == <<"v", "1", ".", "9", ".", "1", "0">>
Tag_v0_3_0 == <<"v", "0", ".", "3", ".", "0">>
Tag_uhhhh == <<"u", "h", "h", "h", "h">>
Tag_v3_0_0_alpha == <<"v", "3", ".", "0", ".", "0", "-", "a", "l", "p", "h", "a">>
Tag_v3_0_0_alpha_1 == Tag_v3_0_0_alpha \o <<".", "1">>
Tag_v3_0_0_2 == <<"v", "3", ".", "0", ".", "0", "-", "2">>
Tag_v3_0_0 == <<"v", "3", ".", "0", ".", "0">>
Tag_empty == <<>>
Tag_vv1_0_0 == <<"v">> \o Tag_v1_0_0
Tag_1_10_0 == <<"1", ".", "1", "0", ".", "0">>
Tag_v1_2 == <<"v", "1", ".", "2">>

TagUniverse == {Tag_v1_0_0, Tag_v1_9_10, Tag_v0_3_0, Tag_uhhhh, Tag_v3_0_0_alpha,
                Tag_v3_0_0_alpha_1, Tag_v3_0_0_2, Tag_v3_0_0, Tag_empty,
                Tag_vv1_0_0, Tag_1_10_0, Tag_v1_2}

\* A GitHubReleaseItem: its tag_name, and its name standing for the other
\* fields, which the program only passes through.
Release(tag, name) == [tag_name |-> tag, name |-> name]

\* A response body: whether it decodes as a list of releases, and the list.
BadBody == [json |-> FALSE, items |-> <<>>]
Body(items) == [json |-> TRUE, items |-> items]

FirstBodies ==
    {BadBody,
     Body(<<>>),
     Body(<<Release(Tag_v1_0_0, "a"), Release(Tag_v1_9_10, "b"), Release(Tag_v0_3_0, "c")>>),
     Body(<<Release(Tag_uhhhh, "a"), Release(Tag_v3_0_0_alpha, "b"), Release(Tag_v1_9_10, "c")>>),
     Body(<<Release(Tag_uhhhh, "a"), Release(Tag_empty, "b"), Release(Tag_vv1_0_0, "c")>>)}

LaterBodies ==
    {BadBody,
     Body(<<Release(Tag_v1_0_0, "a"), Release(Tag_v1_0_0, "d")>>),
     Body(<<Release(Tag_v3_0_0, "e")>>)}

\* The link header GitHub writes on page 1 of a listing whose last page is n.
PagedLink(n) ==
    Link(<<Entry(RelNext, <<Param(KeyPerPage, PAGINATION_REQUEST_AMOUNT), Param(KeyPage, 2)>>),
           Entry(RelLast, <<Param(KeyPerPage, PAGINATION_REQUEST_AMOUNT), Param(KeyPage, n)>>)>>)

FirstLinks ==
    {NoLink} \cup {PagedLink(n) : n \in 0..MaxLast}
      \cup {Link(<<Entry(RelLast, <<Param(KeyPerPage, PAGINATION_REQUEST_AMOUNT)>>)>>),
            Link(<<Entry(RelNext, <<Param(KeyPerPage, PAGINATION_REQUEST_AMOUNT), Param(KeyPage, 2)>>)>>),
            Link(<<[rel |-> RelLast, params |-> <<Param(KeyPage, 2)>>, obs |-> TRUE]>>),
            Link(<<Entry(RelLast, <<ParamText(KeyPage, TooBigText, -1)>>)>>)}

LaterLinks == {NoLink, PagedLink(1)}

Response(stat, h, b) == [kind |-> "response", status |-> stat, headers |-> h, body |-> b]
TransportError == [kind |-> "transport_error", status |-> 0, headers |-> NoLink, body |-> BadBody]
Unset == [kind |-> "unset", status |-> 0, headers |-> NoLink, body |-> BadBody]

\* What the API may answer to the request for a page.
Responses(page) ==
    IF page = 1
    THEN {TransportError}
           \cup {Response(st, NoLink, BadBody) : st \in {300, 401, 403, 404, 500}}
           \cup {Response(299, NoLink, b) : b \in FirstBodies}
           \cup {Response(200, h, b) : h \in FirstLinks, b \in FirstBodies}
    ELSE {TransportError}
           \cup {Response(st, NoLink, BadBody) : st \in {401, 404, 500}}
           \cup {Response(200, h, b) : h \in LaterLinks, b \in LaterBodies}

(***************************************************************************)
(* The state machine: callers of one GitHub instance and the API.          *)
(***************************************************************************)
Repositories == {"foo/bar", "celeo/github_release_check"}
Callers == {1, 2}
Kinds == {"query", "get_all_versions", "get_latest_version"}

\* GitHub::new(): the instance the calls are made on.
GitHub == [api_root |-> DEFAULT_API_ROOT]

IdleCall == [pc |-> "idle", kind |-> "", repository |-> "", page |-> 0,
             pages |-> <<>>, last_page |-> None, log |-> <<>>,
             qres |-> Pending, result |-> Pending]

\* QueryLocals with the accumulator kept in the instance from call to call.
QueryLocalsKept(self) == [page |-> 1, pages |-> calls[1].pages, last_page |-> None]

\* QueryLocals with the last page kept in the instance once a call found it.
QueryLocalsKnownLast(self) == [page |-> 1, pages |-> <<>>, last_page |-> calls[1].last_page]

\* The locals query starts with.
QueryLocals(self) == [page |-> 1, pages |-> <<>>, last_page |-> None]

\* The public function called, from the result of its query on.
Finish(kind, qres) ==
    CASE kind = "query" -> qres
      [] kind = "get_all_versions" -> get_all_versions(qres)
      [] kind = "get_latest_version" -> get_latest_version(get_all_versions(qres))

\* Caller c calls `kind` for `repo`: query sets its locals up and sends the
\* request for page 1.
Invoke(c, kind, repo) ==
    /\ calls[c].pc = "idle"
    /\ LET l == QueryLocals(GitHub) IN
       calls' = [calls EXCEPT ![c] =
                    [pc |-> "await", kind |-> kind, repository |-> repo,
                     page |-> l.page, pages |-> l.pages, last_page |-> l.last_page,
                     log |-> <<BuildRequest(GitHub.api_root, repo, l.page)>>,
                     qres |-> Pending, result |-> Pending]]
    /\ UNCHANGED <<upstream, pInput, pHeaders, pOut, vTags, vOut>>

\* The end of query and of the public function called: q is what query returns.
Returned(l, kind, q) == [l EXCEPT !.pc = "done", !.qres = q, !.result = Finish(kind, q)]

\* The locals of a call after the turn r of the loop: the next request is
\* sent, or the call returns.
Advance(l, r) ==
    IF r.outcome = "next"
    THEN [l EXCEPT !.page = r.page, !.pages = r.pages, !.last_page = r.last_page,
                   !.log = Append(@, BuildRequest(GitHub.api_root, l.repository, r.page))]
    ELSE Returned([l EXCEPT !.page = r.page, !.pages = r.pages,
                            !.last_page = r.last_page],
                  l.kind,
                  IF r.outcome = "break" THEN Ok(Flatten(r.pages)) ELSE r.error)

\* The response to the request caller c waits for arrives (the API fixes its
\* answer for a page the first time the page is asked for): query runs from
\* there to its next request, or to its return and that of its caller.
ReceiveFrom(c, answers) ==
    /\ calls[c].pc = "await"
    /\ \E resp \in (IF upstream[calls[c].repository][calls[c].page] = Unset
                    THEN answers
                    ELSE {upstream[calls[c].repository][calls[c].page]}) :
          /\ upstream' = [upstream EXCEPT ![calls[c].repository][calls[c].page] = resp]
          /\ calls' = [calls EXCEPT ![c] = Advance(calls[c], ProcessResponse(calls[c], resp))]
    /\ UNCHANGED <<pInput, pHeaders, pOut, vTags, vOut>>

Receive(c) == ReceiveFrom(c, Responses(calls[c].page))

\* The values of the variables a specification does not use.
NoParserInput == NoLink
NoParserOutput == [kind |-> "pending", some |-> FALSE, val |-> 0]
ParserIdle ==
    /\ pInput = NoParserInput
    /\ pHeaders = <<>>
    /\ pOut = NoParserOutput
ResolverIdle ==
    /\ vTags = <<>>
    /\ vOut = Pending
CallsIdle ==
    /\ upstream = [r \in Repositories |-> [p \in 1..MaxLast |-> Unset]]
    /\ calls = [c \in Callers |-> IdleCall]

Init == CallsIdle /\ ParserIdle /\ ResolverIdle

\* One caller making two calls in a row for one repository.
InOrder(c, repo) ==
    c = 1 \/ (calls[1].pc = "done" /\ repo = calls[1].repository)

Next ==
    \/ \E c \in Callers, kind \in Kinds, repo \in Repositories :
          InOrder(c, repo) /\ Invoke(c, kind, repo)
    \/ \E c \in Callers : Receive(c)

Spec == Init /\ [][Next]_vars

(***************************************************************************)
(* The same calls with a transport that answers every request: the client  *)
(* blocks in execute until the response or the error is there. The answers *)
(* are every last page 0..MaxLast on page 1 and, on the later pages, a     *)
(* failure, a body that does not decode, and link headers absent or        *)
(* advertising another last page.                                          *)
(***************************************************************************)
LiveResponses(page) ==
    IF page = 1
    THEN {TransportError, Response(500, NoLink, BadBody),
          Response(200, PagedLink(3), BadBody)}
           \cup {Response(200, h, Body(<<Release(Tag_v1_0_0, "a")>>)) :
                    h \in {NoLink} \cup {PagedLink(n) : n \in 0..MaxLast}}
    ELSE {TransportError, Response(404, NoLink, BadBody),
          Response(200, NoLink, BadBody),
          Response(200, NoLink, Body(<<Release(Tag_v1_9_10, "b")>>)),
          Response(200, PagedLink(1), Body(<<Release(Tag_v0_3_0, "c")>>))}

Answer(c) == ReceiveFrom(c, LiveResponses(calls[c].page))

\* One caller making two calls in a row, the second for another repository.
InTurn(c, repo) ==
    c = 1 \/ (calls[1].pc = "done" /\ repo # calls[1].repository)

NextLive ==
    \/ \E c \in Callers, kind \in Kinds, repo \in Repositories :
          InTurn(c, repo) /\ Invoke(c, kind, repo)
    \/ \E c \in Callers : Answer(c)

SpecLive == Init /\ [][NextLive]_vars /\ \A c \in Callers : WF_vars(Answer(c))

(***************************************************************************)
(* get_last_page on its own: the header collection is drawn from the link  *)
(* headers below, and the one action applies the function to it.           *)
(***************************************************************************)
PerPageVals == {1, PAGINATION_REQUEST_AMOUNT}
PageVals == 0..MaxPageNum \cup {10}
\* Keys made of word characters that end in "page" and are not `page`.
OtherPageKeys == {KeyPerPage, KeyHomepage, KeyMyPage}

\* The query parameters of a rel="last" entry.
LastParams ==
    {<<Param(KeyPerPage, a), Param(KeyPage, b)>> : a \in PerPageVals, b \in PageVals}
      \cup {<<Param(KeyPage, b), Param(KeyPerPage, a)>> : a \in PerPageVals, b \in PageVals}
      \cup {<<Param(k, 1), Param(KeyPage, b)>> : k \in {KeyHomepage, KeyMyPage}, b \in PageVals}
      \cup {<<Param(KeyPage, b)>> : b \in PageVals}
      \cup {<<Param(k, b)>> : k \in OtherPageKeys, b \in PageVals}
      \cup {<<Param(KeyMyDashPage, b)>> : b \in PageVals}
      \cup {<<Param(KeyPerPage, a), Param(KeyMyDashPage, b)>> : a \in PerPageVals, b \in PageVals}
      \cup {<<>>,
            <<Param(KeyPerPage, PAGINATION_REQUEST_AMOUNT)>>,
            <<Param(KeyPerPage, 1), ParamText(KeyPage, <<"0", "0", "7">>, 7)>>,
            <<ParamText(KeyPage, TooBigText, -1)>>}

LastEntries == {Entry(RelLast, ps) : ps \in LastParams}

OtherEntries ==
    {Entry(rel, <<Param(KeyPerPage, a), Param(KeyPage, b)>>) :
        rel \in {RelNext, RelPrev}, a \in PerPageVals, b \in PageVals}
      \cup {Entry(RelNext, <<Param(KeyPage, b)>>) : b \in PageVals}

ParserInputs ==
    {NoLink}
      \cup {Link(<<e>>) : e \in LastEntries \cup OtherEntries}
      \cup {Link(<<o, e>>) : o \in OtherEntries, e \in LastEntries}
      \cup {Link(<<e, o>>) : o \in OtherEntries, e \in LastEntries}
      \cup {Link(<<[rel |-> RelLast, params |-> <<Param(KeyPage, 2)>>, obs |-> TRUE]>>)}

InitParser ==
    /\ CallsIdle
    /\ ResolverIdle
    /\ pInput \in ParserInputs
    /\ pHeaders \in {RenderHeaders(pInput)} \cup (IF pInput.link THEN {} ELSE {<<>>})
    /\ pOut = NoParserOutput

ParseHeaders ==
    /\ pOut = NoParserOutput
    /\ pOut' = get_last_page(pHeaders)
    /\ UNCHANGED <<upstream, calls, pInput, pHeaders, vTags, vOut>>

NextParser == ParseHeaders

SpecParser == InitParser /\ [][NextParser]_vars

(***************************************************************************)
(* The version selection on its own: the tag names are drawn from the      *)
(* sequences of at most MaxTags tags.                                      *)
(***************************************************************************)
TagSeqs == UNION {[1..n -> TagUniverse] : n \in 0..MaxTags}

InitResolver ==
    /\ CallsIdle
    /\ ParserIdle
    /\ vTags \in TagSeqs
    /\ vOut = Pending

ResolveLatest ==
    /\ vOut = Pending
    /\ vOut' = get_latest_version(Ok(vTags))
    /\ UNCHANGED <<upstream, calls, pInput, pHeaders, pOut, vTags>>

NextResolver == ResolveLatest

SpecResolver == InitResolver /\ [][NextResolver]_vars

(***************************************************************************)
(* Calls of query from two threads on one GitHub instance (query takes     *)
(* &self, and the client is shared between threads), their steps           *)
(* interleaved in any order, for the same repository or for two; then one  *)
(* more call made alone, once both have returned.                          *)
(***************************************************************************)
Alone == 3
Threads == Callers \cup {Alone}

\* What the API may answer to the request for a page in these runs.
ThreadResponses(page) ==
    IF page = 1
    THEN {TransportError, Response(404, NoLink, BadBody)}
           \cup {Response(200, h, b) :
                    h \in {NoLink} \cup {PagedLink(n) : n \in 2..MaxLast},
                    b \in {BadBody,
                           Body(<<Release(Tag_v1_0_0, "a"), Release(Tag_v1_9_10, "b")>>)}}
    ELSE {Response(500, NoLink, BadBody),
          Response(200, PagedLink(1), Body(<<Release(Tag_v3_0_0, "e")>>)),
          Response(200, NoLink, Body(<<Release(Tag_v0_3_0, "c"), Release(Tag_uhhhh, "d")>>))}

InitThreads ==
    /\ upstream = [r \in Repositories |-> [p \in 1..MaxLast |-> Unset]]
    /\ calls = [c \in Threads |-> IdleCall]
    /\ ParserIdle
    /\ ResolverIdle

\* The call made alone starts when the calls of both threads have returned.
ThreadsDone == \A c \in Callers : calls[c].pc = "done"

NextThreads ==
    \/ \E c \in Callers, repo \in Repositories : Invoke(c, "query", repo)
    \/ \E repo \in Repositories : ThreadsDone /\ Invoke(Alone, "query", repo)
    \/ \E c \in Threads : ReceiveFrom(c, ThreadResponses(calls[c].page))

SpecThreads == InitThreads /\ [][NextThreads]_vars

(***************************************************************************)
(* What the properties below speak of.                                     *)
(***************************************************************************)
\* The response the API gave to the i-th request of caller c.
RespOf(c, i) == upstream[calls[c].repository][calls[c].log[i].page]

\* The response to the first request of caller c (Unset before it arrives).
FirstResp(c) == upstream[calls[c].repository][1]

\* A response with a status in 200..299.
Succeeded(r) == r.kind = "response" /\ r.status >= 200 /\ r.status <= 299

\* A response with a status outside 200..299, or no response at all.
Failed(r) ==
    \/ r.kind = "transport_error"
    \/ r.kind = "response" /\ (r.status < 200 \/ r.status > 299)

\* The link header written from h has a rel="last" entry whose `page`
\* parameter is n.
AdvertisesLast(h, n) ==
    /\ h.link
    /\ \E i \in 1..Len(h.entries) :
          /\ h.entries[i].rel = RelLast
          /\ ~h.entries[i].obs
          /\ \E j \in 1..Len(h.entries[i].params) :
                /\ h.entries[i].params[j].key = KeyPage
                /\ h.entries[i].params[j].num = n

\* There is no link header, or none of its rel="last" entries has a `page`
\* parameter.
NoUsableLast(h) ==
    \/ ~h.link
    \/ \A i \in 1..Len(h.entries) :
          h.entries[i].rel = RelLast =>
             \A j \in 1..Len(h.entries[i].params) : h.entries[i].params[j].key # KeyPage

\* The records of pages 1..n of a repository, in page order.
RECURSIVE RecordsUpTo(_, _)
RecordsUpTo(repo, n) ==
    IF n = 0 THEN <<>> ELSE RecordsUpTo(repo, n - 1) \o upstream[repo][n].body.items

\* The request for page p of a repository, as the API should see it.
RequestFor(repo, p) ==
    [url |-> <<"https://api.github.com/", "repos/", repo, "/releases">>,
     per_page |-> 100, page |-> p]

(***************************************************************************)
(* C1. Pagination completeness: when the first response advertises         *)
(* last = N (N in 1..MaxLast) and every response is a success, a call of   *)
(* query has issued exactly the requests for pages 1, 2, ..., N, in that   *)
(* order, and returns the records of the N pages concatenated in page      *)
(* order.                                                                  *)
(***************************************************************************)
C1_AllPagesFetched ==
    \A c \in Callers : \A n \in 1..MaxLast :
        (/\ calls[c].pc = "done"
         /\ calls[c].qres.tag = "Ok"
         /\ AdvertisesLast(FirstResp(c).headers, n))
        => /\ Len(calls[c].log) = n
           /\ \A i \in 1..n : calls[c].log[i] = RequestFor(calls[c].repository, i)
           /\ calls[c].qres.val = RecordsUpTo(calls[c].repository, n)

(***************************************************************************)
(* C2. Single-page policy: when the first response is a success and has    *)
(* no link header, or a link header whose rel="last" entries carry no      *)
(* `page` parameter, query issues the one request page = 1, per_page = 100 *)
(* and no other, and, the body decoding, returns exactly the records of    *)
(* that page in the order received.                                        *)
(***************************************************************************)
C2_SinglePage ==
    \A c \in Callers :
        (/\ calls[c].pc # "idle"
         /\ Succeeded(FirstResp(c))
         /\ NoUsableLast(FirstResp(c).headers))
        => /\ calls[c].log = <<RequestFor(calls[c].repository, 1)>>
           /\ (calls[c].pc = "done" /\ FirstResp(c).body.json
                  => calls[c].qres = Ok(FirstResp(c).body.items))

\* A call that ended after a link header with a rel="last" entry without a
\* page number, and returned three records.
C2_Witness ==
    \E c \in Callers :
        /\ calls[c].pc = "done"
        /\ Succeeded(FirstResp(c))
        /\ FirstResp(c).headers.link
        /\ NoUsableLast(FirstResp(c).headers)
        /\ \E i \in 1..Len(FirstResp(c).headers.entries) :
              FirstResp(c).headers.entries[i].rel = RelLast
        /\ calls[c].qres.tag = "Ok"
        /\ Len(calls[c].qres.val) = 3

(***************************************************************************)
(* C3. Status-to-error mapping: the response that ends a call of query,    *)
(* on whichever page, makes it fail with RepositoryNotFound iff its status *)
(* is 404, with AuthenticationError carrying the status iff its status is  *)
(* 401 or 403, and with ErrorHttpResponse carrying the status iff its      *)
(* status is any other status outside 200..299; a status in 200..299       *)
(* gives none of the three.                                                *)
(***************************************************************************)
C3_StatusMapping ==
    \A c \in Callers :
        calls[c].pc = "done" =>
            LET r   == RespOf(c, Len(calls[c].log))
                q   == calls[c].qres
                bad == r.kind = "response" /\ (r.status < 200 \/ r.status > 299)
            IN  /\ (q.tag = "Err" /\ q.err = "RepositoryNotFound") <=> (bad /\ r.status = 404)
                /\ (q.tag = "Err" /\ q.err = "AuthenticationError")
                       <=> (bad /\ r.status \in {401, 403})
                /\ (q.tag = "Err" /\ q.err = "ErrorHttpResponse")
                       <=> (bad /\ r.status \notin {401, 403, 404})
                /\ q.err \in {"AuthenticationError", "ErrorHttpResponse"}
                       => q.status = r.status

\* A call that got a 401 on its second page.
C3_Witness ==
    \E c \in Callers :
        /\ calls[c].pc = "done"
        /\ Len(calls[c].log) = 2
        /\ RespOf(c, 2).status = 401
        /\ calls[c].qres = Err("AuthenticationError", 401)

(***************************************************************************)
(* C4. Immediate failure propagation without retry: within one call no     *)
(* page is requested twice and no request follows a response that was a    *)
(* non-success status or a transport failure; the call ends with the error *)
(* of that response, and returns none of the records of the pages before.  *)
(***************************************************************************)
C4_FailFast ==
    \A c \in Callers :
        LET l == calls[c] IN
        /\ \A i, j \in 1..Len(l.log) : i # j => l.log[i].page # l.log[j].page
        /\ \A i \in 1..(Len(l.log) - 1) : ~Failed(RespOf(c, i))
        /\ (l.pc = "done" /\ Failed(RespOf(c, Len(l.log))))
              => /\ l.qres.tag = "Err"
                 /\ l.qres.val = <<>>
                 /\ l.result = l.qres
                 /\ (RespOf(c, Len(l.log)).kind = "transport_error"
                        => l.qres = Err("HttpClient", 0))
                 /\ (RespOf(c, Len(l.log)).kind = "response"
                        => /\ l.qres.err \in {"RepositoryNotFound", "AuthenticationError",
                                              "ErrorHttpResponse"}
                           /\ l.qres.err # "RepositoryNotFound"
                                 => l.qres.status = RespOf(c, Len(l.log)).status)

\* A call whose third request failed in transport after two pages of records.
C4_Witness ==
    \E c \in Callers :
        /\ calls[c].pc = "done"
        /\ Len(calls[c].log) = 3
        /\ RespOf(c, 3).kind = "transport_error"
        /\ Len(Flatten(calls[c].pages)) >= 4
        /\ calls[c].result = Err("HttpClient", 0)

\* Whether entry e of a link header has a query parameter with key k, and
\* the number of its first one.
HasKey(e, k) == \E j \in 1..Len(e.params) : e.params[j].key = k
NumOf(e, k) ==
    e.params[CHOOSE j \in 1..Len(e.params) :
                /\ e.params[j].key = k
                /\ \A i \in 1..(j - 1) : e.params[i].key # k].num

\* No rel="last" entry of the link header written from h has the number n
\* under a key other than per_page, my_page and homepage.
NotTheLastPage(h, n) ==
    \A i \in 1..Len(h.entries) :
        h.entries[i].rel = RelLast =>
            \A j \in 1..Len(h.entries[i].params) :
                h.entries[i].params[j].key \notin OtherPageKeys
                    => h.entries[i].params[j].num # n

(***************************************************************************)
(* C5. page against per_page: for a link header whose rel="last" entry has *)
(* both per_page=a and page=b in its query, in either order,               *)
(* get_last_page returns b; and it returns neither the page number of an   *)
(* entry of another relation nor the value of a key made of word           *)
(* characters that ends in "page" without being `page` (per_page, my_page, *)
(* homepage), a number the rel="last" entry writes under another key       *)
(* apart.                                                                  *)
(***************************************************************************)
C5_PageNotPerPage ==
    (pOut # NoParserOutput /\ pInput.link) =>
        \A i \in 1..Len(pInput.entries) :
            LET e == pInput.entries[i] IN
            /\ (e.rel = RelLast /\ ~e.obs /\ HasKey(e, KeyPerPage) /\ HasKey(e, KeyPage))
                  => pOut = LastSome(NumOf(e, KeyPage))
            /\ (e.rel # RelLast /\ HasKey(e, KeyPage)
                    /\ NotTheLastPage(pInput, NumOf(e, KeyPage)))
                  => pOut # LastSome(NumOf(e, KeyPage))
            /\ \A k \in OtherPageKeys :
                  (HasKey(e, k) /\ NotTheLastPage(pInput, NumOf(e, k)))
                      => pOut # LastSome(NumOf(e, k))

\* The header of the test: rel="next" with per_page=1&page=2, then rel="last"
\* with per_page=1&page=10, parsed to 10.
C5_Witness ==
    /\ pInput = Link(<<Entry(RelNext, <<Param(KeyPerPage, 1), Param(KeyPage, 2)>>),
                       Entry(RelLast, <<Param(KeyPerPage, 1), Param(KeyPage, 10)>>)>>)
    /\ pOut = LastSome(10)

(***************************************************************************)
(* C6. The parser never invents a page number: get_last_page returns none  *)
(* when the header collection has no link header or the link header has no *)
(* rel="last" entry, and a number it returns is the number written as the  *)
(* `page` parameter of a rel="last" entry of the link header.              *)
(***************************************************************************)
C6_NeverInvents ==
    pOut # NoParserOutput =>
        /\ (\/ \A i \in 1..Len(pHeaders) : pHeaders[i].name # "link"
            \/ \A i \in 1..Len(pInput.entries) : pInput.entries[i].rel # RelLast)
              => pOut = LastNone
        /\ (pOut.kind = "ok" /\ pOut.some) => AdvertisesLast(pInput, pOut.val)

\* The version a tag stands for: the tag without its first character when
\* that is a 'v', parsed.
TagVersion(t) ==
    ParseVersion(IF Len(t) > 0 /\ t[1] = "v" THEN SubSeq(t, 2, Len(t)) ELSE t)

Version(major, minor, patch, pre) ==
    [ok |-> TRUE, major |-> major, minor |-> minor, patch |-> patch, pre |-> pre]

(***************************************************************************)
(* C7. Version resolution: when at least one tag parses as a semantic      *)
(* version after one leading 'v' is stripped, get_latest_version returns   *)
(* one of those versions that none of them exceeds in semantic-version     *)
(* precedence; the tags that do not parse ("uhhhh", "", "vv1.0.0") count   *)
(* for nothing. So 3.0.0-alpha is returned over 1.9.10, 3.0.0 over         *)
(* 3.0.0-alpha, and 1.10.0 over 1.9.10.                                    *)
(***************************************************************************)
C7_LatestIsMax ==
    vOut # Pending =>
        LET cands == {v \in {TagVersion(vTags[i]) : i \in 1..Len(vTags)} : v.ok} IN
        /\ cands # {} =>
              /\ vOut.tag = "Ok"
              /\ vOut.val \in cands
              /\ \A v \in cands : CmpVersion(v, vOut.val) <= 0
        /\ \A i \in 1..Len(vTags) :
              vTags[i] \in {Tag_uhhhh, Tag_empty, Tag_vv1_0_0} => ~TagVersion(vTags[i]).ok
        /\ vTags = <<Tag_uhhhh, Tag_v3_0_0_alpha, Tag_v1_9_10>>
              => vOut = Ok(Version(3, 0, 0, <<<<"a", "l", "p", "h", "a">>>>))
        /\ vTags = <<Tag_v3_0_0, Tag_v3_0_0_alpha, Tag_vv1_0_0>>
              => vOut = Ok(Version(3, 0, 0, <<>>))
        /\ vTags = <<Tag_1_10_0, Tag_empty, Tag_v1_9_10>>
              => vOut = Ok(Version(1, 10, 0, <<>>))

\* The tags of the test: "uhhhh", "v3.0.0-alpha", "v1.9.10", resolved to
\* 3.0.0-alpha.
C7_Witness ==
    /\ vTags = <<Tag_uhhhh, Tag_v3_0_0_alpha, Tag_v1_9_10>>
    /\ vOut = Ok(Version(3, 0, 0, <<<<"a", "l", "p", "h", "a">>>>))

(***************************************************************************)
(* C8. Empty and unparseable results: when query succeeds with zero        *)
(* records get_all_versions returns the empty sequence, not an error;      *)
(* get_latest_version fails with NoReleases exactly when query succeeds    *)
(* and no record's tag parses as a semantic version (zero records          *)
(* included), and no other function returns NoReleases.                    *)
(***************************************************************************)
C8_NoReleases ==
    \A c \in Callers :
        calls[c].pc = "done" =>
            /\ (calls[c].kind = "get_all_versions" /\ calls[c].qres = Ok(<<>>))
                  => calls[c].result = Ok(<<>>)
            /\ calls[c].kind = "get_latest_version"
                  => (calls[c].result = Err("NoReleases", 0)
                        <=> /\ calls[c].qres.tag = "Ok"
                            /\ \A i \in 1..Len(calls[c].qres.val) :
                                  ~TagVersion(calls[c].qres.val[i].tag_name).ok)
            /\ calls[c].kind # "get_latest_version" => calls[c].result.err # "NoReleases"

\* For a repository without releases, get_all_versions returned the empty
\* sequence and get_latest_version then failed with NoReleases.
C8_Witness ==
    /\ calls[1].pc = "done" /\ calls[1].kind = "get_all_versions"
    /\ calls[1].result = Ok(<<>>)
    /\ calls[2].pc = "done" /\ calls[2].kind = "get_latest_version"
    /\ calls[2].qres = Ok(<<>>)
    /\ calls[2].result = Err("NoReleases", 0)

(***************************************************************************)
(* C9. get_all_versions is an order-preserving projection of query that    *)
(* filters nothing: when query succeeds with records r1..rk it returns k   *)
(* strings, the i-th the unmodified tag name of ri; when query fails it    *)
(* fails with the same error. The same holds against a call of query made  *)
(* for the same repository.                                                *)
(***************************************************************************)
C9_AllVersionsProjection ==
    \A c \in Callers :
        (calls[c].pc = "done" /\ calls[c].kind = "get_all_versions") =>
            /\ calls[c].qres.tag = "Ok" =>
                  /\ calls[c].result.tag = "Ok"
                  /\ Len(calls[c].result.val) = Len(calls[c].qres.val)
                  /\ \A i \in 1..Len(calls[c].qres.val) :
                        calls[c].result.val[i] = calls[c].qres.val[i].tag_name
            /\ calls[c].qres.tag # "Ok" => calls[c].result = calls[c].qres
            /\ \A d \in Callers :
                  (/\ calls[d].pc = "done" /\ calls[d].kind = "query"
                   /\ calls[d].repository = calls[c].repository)
                  => IF calls[d].result.tag = "Ok"
                     THEN calls[c].result =
                             Ok([i \in 1..Len(calls[d].result.val) |->
                                    calls[d].result.val[i].tag_name])
                     ELSE calls[c].result = calls[d].result

\* get_all_versions returned five tag names from two pages, among them an
\* empty one, malformed ones and the same one twice.
C9_Witness ==
    \E c \in Callers :
        /\ calls[c].pc = "done" /\ calls[c].kind = "get_all_versions"
        /\ calls[c].result = Ok(<<Tag_uhhhh, Tag_empty, Tag_vv1_0_0, Tag_v1_0_0, Tag_v1_0_0>>)

(***************************************************************************)
(* C10. Idempotence: two calls for the same repository against an          *)
(* unchanged API issue the same sequence of requests and get the same      *)
(* result from query; two calls of the same function (query,               *)
(* get_all_versions, get_latest_version) return the same value or the      *)
(* same error.                                                             *)
(***************************************************************************)
C10_Idempotent ==
    (/\ calls[1].pc = "done" /\ calls[2].pc = "done"
     /\ calls[1].repository = calls[2].repository)
    => /\ calls[1].log = calls[2].log
       /\ calls[1].qres = calls[2].qres
       /\ calls[1].kind = calls[2].kind => calls[1].result = calls[2].result

\* Two calls of get_latest_version that each read three pages and returned
\* the same version.
C10_Witness ==
    /\ calls[1].pc = "done" /\ calls[2].pc = "done"
    /\ calls[1].kind = "get_latest_version" /\ calls[2].kind = "get_latest_version"
    /\ Len(calls[1].log) = 3 /\ Len(calls[2].log) = 3
    /\ calls[1].result.tag = "Ok"
    /\ calls[2].result = calls[1].result

(***************************************************************************)
(* C11. The termination policy of the paging loop: once the successful     *)
(* response to page p is processed with the last page known to be L, the   *)
(* call stops iff p + 1 >= L and otherwise requests page p + 1; so the     *)
(* pages requested are 1..max(1, L-1) and no page >= max(2, L) is ever     *)
(* requested.                                                              *)
(***************************************************************************)
\* max(1, L - 1)
LastRequested(L) == IF L > 2 THEN L - 1 ELSE 1

PolicyStep(c) ==
    (/\ calls[c].pc = "await"
     /\ Len(calls'[c].pages) = Len(calls[c].pages) + 1
     /\ calls'[c].last_page.some)
    => /\ calls'[c].pc = "done" <=> calls[c].page + 1 >= calls'[c].last_page.val
       /\ calls'[c].pc = "done"
             => calls'[c].log = calls[c].log /\ calls'[c].qres.tag = "Ok"
       /\ calls'[c].pc # "done"
             => /\ calls'[c].pc = "await"
                /\ calls'[c].log =
                      Append(calls[c].log, RequestFor(calls[c].repository, calls[c].page + 1))

PolicyState(c) ==
    calls[c].last_page.some =>
        /\ \A i \in 1..Len(calls[c].log) :
              /\ calls[c].log[i].page = i
              /\ i <= LastRequested(calls[c].last_page.val)
        /\ (calls[c].pc = "done" /\ calls[c].qres.tag = "Ok")
              => Len(calls[c].log) = LastRequested(calls[c].last_page.val)

C11_TerminationPolicy ==
    /\ [](\A c \in Callers : PolicyState(c))
    /\ [][\A c \in Callers : PolicyStep(c)]_vars

\* A call that learnt the last page is 4 from its first response and
\* returned the records of the three pages it requested.
C11_Witness ==
    \E c \in Callers :
        /\ calls[c].pc = "done" /\ calls[c].qres.tag = "Ok"
        /\ calls[c].last_page = Some(4)
        /\ Len(calls[c].log) = 3
        /\ calls[c].log[3].page = 3

(***************************************************************************)
(* C12. A malformed rel="last" entry. As stated: when the link header has  *)
(* a rel="last" entry without a parameter whose key is exactly `page`      *)
(* (only per_page=100, or no query at all), get_last_page panics.          *)
(***************************************************************************)
\* The link header written from h is text and has rel="last" entries, none
\* of them with a `page` parameter.
MalformedLast(h) ==
    /\ h.link
    /\ \A i \in 1..Len(h.entries) : ~h.entries[i].obs
    /\ \E i \in 1..Len(h.entries) : h.entries[i].rel = RelLast
    /\ \A i \in 1..Len(h.entries) :
          h.entries[i].rel = RelLast => ~HasKey(h.entries[i], KeyPage)

Processed(c, i) ==
    /\ RespOf(c, i) # Unset
    /\ Succeeded(RespOf(c, i))
    /\ RespOf(c, i).body.json
    /\ i <= Len(calls[c].pages)
    /\ calls[c].pages[i] = RespOf(c, i).body.items

\* The requests of caller c still without a response.
Outstanding(c) == {i \in 1..Len(calls[c].log) : RespOf(c, i) = Unset}

C13_Sequential ==
    \A c \in Callers :
        calls[c].pc # "idle" =>
            /\ Len(calls[c].log) >= 1
            /\ \A i \in 1..Len(calls[c].log) :
                  calls[c].log[i] = RequestFor(calls[c].repository, i)
            /\ \A i \in 1..(Len(calls[c].log) - 1) : Processed(c, i)
            /\ Len(calls[c].log) >= 2 => calls[c].last_page.some
            /\ calls[c].pc = "await" =>
                  /\ Len(calls[c].pages) = Len(calls[c].log) - 1
                  /\ Outstanding(c) \subseteq {Len(calls[c].log)}
            /\ calls[c].pc = "done" => Outstanding(c) = {}

\* A call waiting for the response to its third request, the first two
\* pages appended and page 3 not yet answered.
C13_Witness ==
    \E c \in Callers :
        /\ calls[c].pc = "await"
        /\ Len(calls[c].log) = 3
        /\ Len(calls[c].pages) = 2
        /\ Outstanding(c) = {3}

(***************************************************************************)
(* C14. The probe is made once: the last page is the one the link header   *)
(* of the first successful response advertises; once known it does not     *)
(* change during the call; and the link headers of later pages (absent,    *)
(* or advertising another last page) change neither the number of requests *)
(* nor the records returned.                                               *)
(***************************************************************************)
ProbeState(c) ==
    (calls[c].pc # "idle" /\ calls[c].last_page.some) =>
        /\ Succeeded(FirstResp(c))
        /\ AdvertisesLast(FirstResp(c).headers, calls[c].last_page.val)
        /\ (calls[c].pc = "done" /\ calls[c].qres.tag = "Ok") =>
              /\ Len(calls[c].log) = LastRequested(calls[c].last_page.val)
              /\ calls[c].qres.val = RecordsUpTo(calls[c].repository, Len(calls[c].log))

ProbeStep(c) ==
    calls[c].last_page.some => calls'[c].last_page = calls[c].last_page

C14_ProbeOnce ==
    /\ [](\A c \in Callers : ProbeState(c))
    /\ [][\A c \in Callers : ProbeStep(c)]_vars

\* A call told by page 1 that the last page is 4 and by page 2 that it is 1:
\* it went on to page 3 and returned with the last page still 4.
C14_Witness ==
    \E c \in Callers :
        /\ calls[c].pc = "done" /\ calls[c].qres.tag = "Ok"
        /\ calls[c].last_page = Some(4)
        /\ Len(calls[c].log) = 3
        /\ Succeeded(RespOf(c, 2))
        /\ AdvertisesLast(RespOf(c, 2).headers, 1)
        /\ ~RespOf(c, 3).headers.link

(***************************************************************************)
(* C15. Reentrancy: when two calls of query on one GitHub instance run     *)
(* with their steps interleaved, for the same repository or for two, each  *)
(* has its own page cursor, last page and accumulated records: each sends  *)
(* the requests and returns the result that a call made alone against the  *)
(* same API sends and returns, and while in flight it has sent, read and   *)
(* learnt what that call has at the same point.                            *)
(***************************************************************************)
Shorter(a, b) == IF Len(a) <= Len(b) THEN Len(a) ELSE Len(b)

\* Two calls for one repository agree as far as both have got.
SameRun(c, d) ==
    /\ \A i \in 1..Shorter(calls[c].log, calls[d].log) : calls[c].log[i] = calls[d].log[i]
    /\ \A i \in 1..Shorter(calls[c].pages, calls[d].pages) :
          calls[c].pages[i] = calls[d].pages[i]
    /\ (Len(calls[c].pages) >= 1 /\ Len(calls[d].pages) >= 1)
          => calls[c].last_page = calls[d].last_page
    /\ (calls[c].pc = "done" /\ calls[d].pc = "done")
          => /\ calls[c].log = calls[d].log
             /\ calls[c].qres = calls[d].qres
             /\ calls[c].result = calls[d].result

C15_Reentrant ==
    \A c \in Threads, d \in Threads :
        (/\ calls[c].pc # "idle" /\ calls[d].pc # "idle"
         /\ calls[c].repository = calls[d].repository)
        => SameRun(c, d)

\* Two calls in flight at once for one repository, one waiting for page 3
\* with two pages read, the other for page 2 with one page read.
C15_Witness ==
    /\ calls[1].pc = "await" /\ calls[2].pc = "await"
    /\ calls[1].repository = calls[2].repository
    /\ calls[1].page = 3 /\ Len(calls[1].pages) = 2
    /\ calls[2].page = 2 /\ Len(calls[2].pages) = 1
    /\ calls[1].last_page = Some(4) /\ calls[2].last_page = Some(4)

(***************************************************************************)
(* C16. A link header that is not text: when the first successful response *)
(* has a link header whose value cannot be read as text, query fails with  *)
(* HeaderToString, returns no records and sends no further request,        *)
(* whatever the body of the response is.                                   *)
(***************************************************************************)
\* The link header written from h has a byte that is not visible ASCII.
NotText(h) == h.link /\ \E i \in 1..Len(h.entries) : h.entries[i].obs

C16_HeaderToString ==
    \A c \in Callers :
        (/\ calls[c].pc # "idle"
         /\ Succeeded(FirstResp(c))
         /\ NotText(FirstResp(c).headers))
        => /\ Len(calls[c].log) = 1
           /\ calls[c].pages = <<>>
           /\ calls[c].last_page = None
           /\ calls[c].pc = "done" =>
                 /\ calls[c].qres = Err("HeaderToString", 0)
                 /\ calls[c].result = Err("HeaderToString", 0)

\* A response with status 200, three releases in its body and a link header
\* that is not text: the call returned HeaderToString after one request.
C16_Witness ==
    \E c \in Callers :
        /\ calls[c].pc = "done"
        /\ FirstResp(c).status = 200
        /\ NotText(FirstResp(c).headers)
        /\ Len(FirstResp(c).body.items) = 3
        /\ calls[c].qres = Err("HeaderToString", 0)
        /\ Len(calls[c].log) = 1

(***************************************************************************)
(* C17. Termination: with a transport that answers every request, every    *)
(* call returns, records or an error, after finitely many requests (at     *)
(* most max(1, L-1) when the first response gives the last page L, the     *)
(* values 0 and 1 included, and one when it gives none), whatever the      *)
(* statuses and headers of the later pages are.                            *)
(***************************************************************************)
RequestsBounded(c) ==
    Len(calls[c].log) <=
        (IF calls[c].last_page.some THEN LastRequested(calls[c].last_page.val) ELSE 1)

C17_Terminates ==
    /\ [](\A c \in Callers : RequestsBounded(c))
    /\ \A c \in Callers : (calls[c].pc = "await") ~> (calls[c].pc = "done")

\* A call whose first response gave the last page as 0: it returned that
\* page's records after its one request.
C17_Witness ==
    \E c \in Callers :
        /\ calls[c].pc = "done"
        /\ calls[c].qres.tag = "Ok"
        /\ AdvertisesLast(FirstResp(c).headers, 0)
        /\ calls[c].last_page = Some(0)
        /\ Len(calls[c].log) = 1

====
